---- MODULE Spec2Model ----
(***************************************************************************)
(* navitia-poi-model: the POI catalog (Coord, Poi, PoiType, Model), its    *)
(* archive codec (poi.txt, poi_type.txt, poi_properties.txt in a zip) and  *)
(* Model::try_merge.                                                       *)
(*                                                                         *)
(* Conventions of the model                                                *)
(*  - an f64 coordinate is an integer number of hundredths of a degree     *)
(*    (2.35 is 235); NaN and the infinities are not represented;           *)
(*  - a BTreeMap / HashMap is a function whose DOMAIN is its key set;      *)
(*    BTreeMap iteration follows the key order (StrRank), HashMap          *)
(*    iteration order is arbitrary and chosen by the caller of the fold;   *)
(*  - a CSV table is the sequence of its data rows, a row a record of its  *)
(*    cells. A numeric cell of integer type is its decimal numeral, an     *)
(*    f64 cell is the decimal text split into sign, integer part and       *)
(*    hundredths, a String cell is the string;                             *)
(*  - a zip entry is [present, rows]; the zip container, the CSV quoting   *)
(*    and I/O failures of the file system are outside src/ and not         *)
(*    modelled.                                                            *)
(***************************************************************************)
EXTENDS Integers, Sequences, FiniteSets, TLC

VARIABLES pc, archive, self, rhs, result, coord, valid

vars == <<pc, archive, self, rhs, result, coord, valid>>

(***************************************************************************)
(* Bounds and sample domains                                               *)
(***************************************************************************)
\* Largest total number of data rows of a hand-written archive.
MaxRows == 3

\* Largest total number of data rows of an archive loaded while a catalog
\* is assembled by loads and merges.
MaxCatalogRows == 2

PoiIds == {"p1", "p2"}
TypeIds == {"t1", "t2"}
TypeNames == {"Cafe", "Coffee Shop"}
Keys == {"k1", "k2"}
Values == {"v1", "v2"}

\* The strings used as map keys, in the byte order Rust's Ord for String
\* gives them.
SortedStrings == <<"k1", "k2", "p1", "p2", "t1", "t2">>

StrRank(s) == CHOOSE i \in 1..Len(SortedStrings) : SortedStrings[i] = s

(***************************************************************************)
(* Maps                                                                    *)
(***************************************************************************)
EmptyMap == [k \in {} |-> k]

\* BTreeMap::insert / HashMap::insert / a vacant entry's insert: the value
\* under k is v afterwards, whatever was there.
MapInsert(m, k, v) == [x \in (DOMAIN m) \cup {k} |-> IF x = k THEN v ELSE m[x]]

\* The keys of a BTreeMap in iteration order (ascending).
RECURSIVE SortedSeq(_)
SortedSeq(S) ==
    IF S = {} THEN << >>
    ELSE LET lo == CHOOSE x \in S : \A y \in S : StrRank(x) <= StrRank(y)
         IN  <<lo>> \o SortedSeq(S \ {lo})

\* The possible iteration orders of a HashMap with key set S.
HashOrders(S) ==
    {o \in [1..Cardinality(S) -> S] : \A x \in S : \E i \in DOMAIN o : o[i] = x}

PartialMaps(K, V) == UNION {[D -> V] : D \in SUBSET K}

(***************************************************************************)
(* objects.rs: Coord                                                       *)
(***************************************************************************)
\* 90 and 180 degrees, in hundredths of a degree.
MaxLat == 9000
MaxLon == 18000

CoordNew(lon, lat) == [lon |-> lon, lat |-> lat]

CoordDefault == [lon |-> 0, lat |-> 0]

is_default(c) == c.lat = 0 /\ c.lon = 0

is_valid_strict(c) ==
    /\ ~is_default(c)
    /\ -MaxLat < c.lat
    /\ c.lat < MaxLat
    /\ -MaxLon < c.lon
    /\ c.lon < MaxLon

is_valid(c) ==
    /\ ~is_default(c)
    /\ -MaxLat <= c.lat
    /\ c.lat <= MaxLat
    /\ -MaxLon <= c.lon
    /\ c.lon <= MaxLon

(***************************************************************************)
(* objects.rs: Poi, PoiType, Model                                         *)
(***************************************************************************)
MkPoi(id, name, c, type_id, props, visible, weight) ==
    [id |-> id, name |-> name, coord |-> c, poi_type_id |-> type_id,
     properties |-> props, visible |-> visible, weight |-> weight]

MkPoiType(id, name) == [id |-> id, name |-> name]

MkModel(pois, poi_types) == [pois |-> pois, poi_types |-> poi_types]

\* Model::default(): both maps empty.
ModelDefault == MkModel(EmptyMap, EmptyMap)

(***************************************************************************)
(* Result<Model>: Ok(model) or Err(kind, the id or entry the message names)*)
(***************************************************************************)
Ok(m) == [ok |-> TRUE, model |-> m, err |-> "", id |-> ""]

Err(kind, id) == [ok |-> FALSE, model |-> ModelDefault, err |-> kind, id |-> id]

\* No call has returned yet.
NoResult == [ok |-> FALSE, model |-> ModelDefault, err |-> "pending", id |-> ""]

(***************************************************************************)
(* objects.rs: Model::try_merge                                            *)
(***************************************************************************)
\* The first try_fold: rhs.pois, in key order, into self.pois. An occupied
\* entry ends the fold with an error; the values are never compared.
RECURSIVE FoldPois(_, _, _, _)
FoldPois(acc, rpois, order, i) ==
    IF i > Len(order) THEN [ok |-> TRUE, val |-> acc, id |-> ""]
    ELSE LET k == order[i]
         IN  IF k \in DOMAIN acc
             THEN [ok |-> FALSE, val |-> acc, id |-> k]
             ELSE FoldPois(MapInsert(acc, k, rpois[k]), rpois, order, i + 1)

\* A mutant of the second fold: an occupied entry is overwritten without
\* comparing the two PoiType values.
RECURSIVE FoldPoiTypesOverwrite(_, _, _, _)
FoldPoiTypesOverwrite(acc, rtypes, order, i) ==
    IF i > Len(order) THEN [ok |-> TRUE, val |-> acc, id |-> ""]
    ELSE LET k == order[i]
         IN  FoldPoiTypesOverwrite(MapInsert(acc, k, rtypes[k]), rtypes, order, i + 1)

\* The second try_fold: rhs.poi_types, in the HashMap's iteration order,
\* into self.poi_types. An occupied entry is kept when the two values are
\* equal (derived PartialEq: id and name) and ends the fold otherwise.
RECURSIVE FoldPoiTypes(_, _, _, _)
FoldPoiTypes(acc, rtypes, order, i) ==
    IF i > Len(order) THEN [ok |-> TRUE, val |-> acc, id |-> ""]
    ELSE LET k == order[i]
         IN  IF k \in DOMAIN acc
             THEN IF acc[k] = rtypes[k]
                  THEN FoldPoiTypes(acc, rtypes, order, i + 1)
                  ELSE [ok |-> FALSE, val |-> acc, id |-> k]
             ELSE FoldPoiTypes(MapInsert(acc, k, rtypes[k]), rtypes, order, i + 1)

\* A mutant of try_merge: a POI of rhs whose id is taken is skipped when the
\* two Poi values are equal, as a PoiType is.
RECURSIVE FoldPoisLenient(_, _, _, _)
FoldPoisLenient(acc, rpois, order, i) ==
    IF i > Len(order) THEN [ok |-> TRUE, val |-> acc, id |-> ""]
    ELSE LET k == order[i]
         IN  IF k \in DOMAIN acc
             THEN IF acc[k] = rpois[k]
                  THEN FoldPoisLenient(acc, rpois, order, i + 1)
                  ELSE [ok |-> FALSE, val |-> acc, id |-> k]
             ELSE FoldPoisLenient(MapInsert(acc, k, rpois[k]), rpois, order, i + 1)

try_merge_lenient(m, r, order) ==
    LET mp == FoldPoisLenient(m.pois, r.pois, SortedSeq(DOMAIN r.pois), 1)
    IN  IF ~mp.ok THEN Err("poi_conflict", mp.id)
        ELSE LET mt == FoldPoiTypes(m.poi_types, r.poi_types, order, 1)
             IN  IF ~mt.ok THEN Err("poi_type_conflict", mt.id)
                 ELSE Ok(MkModel(mp.val, mt.val))

\* A mutant of try_merge: the merged POIs are dropped, self.pois is kept.
try_merge_keep_pois(m, r, order) ==
    LET mp == FoldPois(m.pois, r.pois, SortedSeq(DOMAIN r.pois), 1)
    IN  IF ~mp.ok THEN Err("poi_conflict", mp.id)
        ELSE LET mt == FoldPoiTypes(m.poi_types, r.poi_types, order, 1)
             IN  IF ~mt.ok THEN Err("poi_type_conflict", mt.id)
                 ELSE Ok(MkModel(m.pois, mt.val))

\* m.try_merge(r); order is the iteration order of r.poi_types.
try_merge(m, r, order) ==
    LET mp == FoldPois(m.pois, r.pois, SortedSeq(DOMAIN r.pois), 1)
    IN  IF ~mp.ok THEN Err("poi_conflict", mp.id)
        ELSE LET mt == FoldPoiTypes(m.poi_types, r.poi_types, order, 1)
             IN  IF ~mt.ok THEN Err("poi_type_conflict", mt.id)
                 ELSE Ok(MkModel(mp.val, mt.val))

(***************************************************************************)
(* io.rs: cells and records                                                *)
(***************************************************************************)
U8Max == 255

\* A zip entry holding CSV rows; by_name fails on an entry that is absent.
Entry(rows) == [present |-> TRUE, rows |-> rows]

Absent == [present |-> FALSE, rows |-> << >>]

\* An f64 as the CSV writer prints it (the shortest decimal text that reads
\* back as the same f64) and as the reader parses it.
FormatF64(x) ==
    LET a == IF x < 0 THEN -x ELSE x
    IN  [neg |-> x < 0, int |-> a \div 100, frac |-> a % 100]

ParseF64(c) == (IF c.neg THEN -1 ELSE 1) * (c.int * 100 + c.frac)

\* u8::deserialize of a decimal numeral.
ParsesU8(n) == 0 <= n /\ n <= U8Max

\* u32::deserialize of a decimal numeral. The numerals above u32::MAX are
\* beyond the integers the model checker represents, so only the sign shows.
ParsesU32(n) == 0 <= n

\* serialize_u8(*v as u8)
ser_from_bool(v) == IF v THEN 1 ELSE 0

\* A mutant of de_from_u8: it accepts 1 only as true.
de_from_u8_strict(n) == [ok |-> n \in {0, 1}, val |-> n = 1]

\* let i = u8::deserialize(deserializer)?; Ok(i != 0)
de_from_u8(n) == [ok |-> ParsesU8(n), val |-> n # 0]

\* From<&Poi> for PoiRecord
PoiRecordFromPoi(poi) ==
    [id |-> poi.id, type_id |-> poi.poi_type_id, name |-> poi.name,
     lat |-> poi.coord.lat, lon |-> poi.coord.lon,
     visible |-> poi.visible, weight |-> poi.weight]

\* A mutant of From<PoiRecord> for Poi: the coordinates are swapped.
PoiFromRecordSwapped(rec) ==
    MkPoi(rec.id, rec.name, CoordNew(rec.lat, rec.lon), rec.type_id, EmptyMap,
          rec.visible, rec.weight)

\* From<PoiRecord> for Poi: the properties start empty.
PoiFromRecord(rec) ==
    MkPoi(rec.id, rec.name, CoordNew(rec.lon, rec.lat), rec.type_id, EmptyMap,
          rec.visible, rec.weight)

\* From<PoiType> for PoiTypeRecord and From<PoiTypeRecord> for PoiType
PoiTypeRecordFromPoiType(pt) == [id |-> pt.id, name |-> pt.name]

PoiTypeFromRecord(rec) == MkPoiType(rec.id, rec.name)

\* The serde derive of PoiRecord: the renamed columns, ser_from_bool and
\* de_from_u8 on poi_visible.
SerPoiRecord(rec) ==
    [poi_id |-> rec.id, poi_type_id |-> rec.type_id, poi_name |-> rec.name,
     poi_lat |-> FormatF64(rec.lat), poi_lon |-> FormatF64(rec.lon),
     poi_weight |-> rec.weight, poi_visible |-> ser_from_bool(rec.visible)]

DePoiRecord(row) ==
    LET v == de_from_u8(row.poi_visible)
    IN  [ok  |-> ParsesU32(row.poi_weight) /\ v.ok,
         rec |-> [id |-> row.poi_id, type_id |-> row.poi_type_id,
                  name |-> row.poi_name, lat |-> ParseF64(row.poi_lat),
                  lon |-> ParseF64(row.poi_lon), weight |-> row.poi_weight,
                  visible |-> v.val]]

\* The serde derive of PoiTypeRecord: two String columns.
SerPoiTypeRecord(rec) == [poi_type_id |-> rec.id, poi_type_name |-> rec.name]

DePoiTypeRecord(row) ==
    [ok |-> TRUE, rec |-> [id |-> row.poi_type_id, name |-> row.poi_type_name]]

\* PoiProperty: three String columns, written and read under their own names.
MkPoiProperty(poi_id, key, value) == [poi_id |-> poi_id, key |-> key, value |-> value]

(***************************************************************************)
(* io.rs: write_model_to_path                                              *)
(***************************************************************************)
\* model.pois.iter().map(|(_, poi)| PoiRecord::from(poi)), through write_csv
WritePoiRows(model) ==
    LET ks == SortedSeq(DOMAIN model.pois)
    IN  [i \in 1..Len(ks) |-> SerPoiRecord(PoiRecordFromPoi(model.pois[ks[i]]))]

\* model.poi_types.iter().sorted_by_key(|pt| pt.0).map(PoiTypeRecord::from)
WritePoiTypeRows(model) ==
    LET ks == SortedSeq(DOMAIN model.poi_types)
    IN  [i \in 1..Len(ks) |->
            SerPoiTypeRecord(PoiTypeRecordFromPoiType(model.poi_types[ks[i]]))]

\* poi.properties.iter().map(|(k, v)| PoiProperty { poi_id: poi.id, .. })
PoiPropertiesOf(poi) ==
    LET ks == SortedSeq(DOMAIN poi.properties)
    IN  [i \in 1..Len(ks) |-> MkPoiProperty(poi.id, ks[i], poi.properties[ks[i]])]

\* model.pois.values().flat_map(..)
RECURSIVE WritePoiPropertyRows(_, _, _)
WritePoiPropertyRows(model, ks, i) ==
    IF i > Len(ks) THEN << >>
    ELSE PoiPropertiesOf(model.pois[ks[i]]) \o WritePoiPropertyRows(model, ks, i + 1)

\* The archive write_model_to_path leaves at the path: three entries, always.
write_model_to_path(model) ==
    [poi            |-> Entry(WritePoiRows(model)),
     poi_type       |-> Entry(WritePoiTypeRows(model)),
     poi_properties |-> Entry(WritePoiPropertyRows(model,
                                  SortedSeq(DOMAIN model.pois), 1))]

(***************************************************************************)
(* io.rs: load_model_from_path                                             *)
(***************************************************************************)
\* poi.txt collected into a BTreeMap keyed by poi.id; the first row that
\* does not deserialize ends the collect with its error.
RECURSIVE CollectPois(_, _, _)
CollectPois(rows, i, acc) ==
    IF i > Len(rows) THEN [ok |-> TRUE, val |-> acc]
    ELSE LET r == DePoiRecord(rows[i])
         IN  IF ~r.ok THEN [ok |-> FALSE, val |-> acc]
             ELSE LET poi == PoiFromRecord(r.rec)
                  IN  CollectPois(rows, i + 1, MapInsert(acc, poi.id, poi))

\* A mutant of the poi_type.txt collect: the first row of an id is kept.
RECURSIVE CollectPoiTypesFirstWins(_, _, _)
CollectPoiTypesFirstWins(rows, i, acc) ==
    IF i > Len(rows) THEN [ok |-> TRUE, val |-> acc]
    ELSE LET r == DePoiTypeRecord(rows[i])
         IN  IF ~r.ok THEN [ok |-> FALSE, val |-> acc]
             ELSE LET pt == PoiTypeFromRecord(r.rec)
                  IN  CollectPoiTypesFirstWins(rows, i + 1,
                          IF pt.id \in DOMAIN acc THEN acc
                          ELSE MapInsert(acc, pt.id, pt))

\* A mutant of the poi_type.txt collect: the map is keyed by the type's name.
RECURSIVE CollectPoiTypesByName(_, _, _)
CollectPoiTypesByName(rows, i, acc) ==
    IF i > Len(rows) THEN [ok |-> TRUE, val |-> acc]
    ELSE LET r == DePoiTypeRecord(rows[i])
         IN  IF ~r.ok THEN [ok |-> FALSE, val |-> acc]
             ELSE LET pt == PoiTypeFromRecord(r.rec)
                  IN  CollectPoiTypesByName(rows, i + 1, MapInsert(acc, pt.name, pt))

\* poi_type.txt collected into a HashMap keyed by poi_type.id.
RECURSIVE CollectPoiTypes(_, _, _)
CollectPoiTypes(rows, i, acc) ==
    IF i > Len(rows) THEN [ok |-> TRUE, val |-> acc]
    ELSE LET r == DePoiTypeRecord(rows[i])
         IN  IF ~r.ok THEN [ok |-> FALSE, val |-> acc]
             ELSE LET pt == PoiTypeFromRecord(r.rec)
                  IN  CollectPoiTypes(rows, i + 1, MapInsert(acc, pt.id, pt))

\* A mutant of the property loop: a row whose POI is unknown is skipped.
RECURSIVE InsertPropertiesSkipping(_, _, _)
InsertPropertiesSkipping(rows, i, pois) ==
    IF i > Len(rows) THEN [ok |-> TRUE, val |-> pois, id |-> ""]
    ELSE LET p == rows[i]
         IN  IF p.poi_id \notin DOMAIN pois
             THEN InsertPropertiesSkipping(rows, i + 1, pois)
             ELSE InsertPropertiesSkipping(rows, i + 1,
                      [pois EXCEPT ![p.poi_id].properties =
                           MapInsert(@, p.key, p.value)])

\* The try_for_each over poi_properties.txt: pois.get_mut(poi_id) or the
\* error naming the id, then poi.properties.insert(key, value).
RECURSIVE InsertProperties(_, _, _)
InsertProperties(rows, i, pois) ==
    IF i > Len(rows) THEN [ok |-> TRUE, val |-> pois, id |-> ""]
    ELSE LET p == rows[i]
         IN  IF p.poi_id \notin DOMAIN pois
             THEN [ok |-> FALSE, val |-> pois, id |-> p.poi_id]
             ELSE InsertProperties(rows, i + 1,
                      [pois EXCEPT ![p.poi_id].properties =
                           MapInsert(@, p.key, p.value)])

\* A mutant of load_model_from_path: poi_properties.txt is required too.
load_model_requiring_properties(a) ==
    IF ~a.poi.present THEN Err("zip", "poi.txt")
    ELSE LET p == CollectPois(a.poi.rows, 1, EmptyMap)
         IN  IF ~p.ok THEN Err("csv", "")
             ELSE IF ~a.poi_type.present THEN Err("zip", "poi_type.txt")
             ELSE LET t == CollectPoiTypes(a.poi_type.rows, 1, EmptyMap)
                  IN  IF ~t.ok THEN Err("csv", "")
                      ELSE IF ~a.poi_properties.present
                           THEN Err("zip", "poi_properties.txt")
                      ELSE LET q == InsertProperties(a.poi_properties.rows, 1, p.val)
                           IN  IF ~q.ok THEN Err("lookup", q.id)
                               ELSE Ok(MkModel(q.val, t.val))

\* load_model_from_path of the archive at the path.
load_model_from_path(a) ==
    IF ~a.poi.present THEN Err("zip", "poi.txt")
    ELSE LET p == CollectPois(a.poi.rows, 1, EmptyMap)
         IN  IF ~p.ok THEN Err("csv", "")
             ELSE IF ~a.poi_type.present THEN Err("zip", "poi_type.txt")
             ELSE LET t == CollectPoiTypes(a.poi_type.rows, 1, EmptyMap)
                  IN  IF ~t.ok THEN Err("csv", "")
                      ELSE IF ~a.poi_properties.present
                           THEN Ok(MkModel(p.val, t.val))
                      ELSE LET q == InsertProperties(a.poi_properties.rows, 1, p.val)
                           IN  IF ~q.ok THEN Err("lookup", q.id)
                               ELSE Ok(MkModel(q.val, t.val))

(***************************************************************************)
(* Inputs: coordinates, archives, models                                   *)
(***************************************************************************)
\* Longitudes and latitudes around the limits of is_valid, in hundredths.
SampleLons == {-20000, -MaxLon - 1, -MaxLon, -MaxLon + 1, -1, 0, 1, 235,
               MaxLon - 1, MaxLon, MaxLon + 1, 20000}

SampleLats == {-9500, -MaxLat - 1, -MaxLat, -MaxLat + 1, -1, 0, 1, 4885,
               MaxLat - 1, MaxLat, MaxLat + 1, 9500}

\* The fields of a POI other than its id, its visibility and its properties.
\* The second one names a PoiType no table declares and lies at (-0.05, 151.2).
PoiPayloads ==
    {[type_id |-> "t1", name |-> "Louvre", lat |-> 4885, lon |-> 235, weight |-> 7],
     [type_id |-> "t9", name |-> "Buoy", lat |-> -5, lon |-> 15120,
      weight |-> 0]}

\* poi_visible cells: the two the writer produces, another u8, and a
\* numeral that is no u8.
VisibleCells == {0, 1, 2, U8Max + 1}

PoiRowOf(id, p, cell) ==
    [poi_id |-> id, poi_type_id |-> p.type_id, poi_name |-> p.name,
     poi_lat |-> FormatF64(p.lat), poi_lon |-> FormatF64(p.lon),
     poi_weight |-> p.weight, poi_visible |-> cell]

PoiRows == {PoiRowOf(id, p, c) : id \in PoiIds, p \in PoiPayloads, c \in VisibleCells}

PoiTypeRows == {[poi_type_id |-> id, poi_type_name |-> n] : id \in TypeIds, n \in TypeNames}

PoiPropertyRows == {MkPoiProperty(id, k, v) : id \in PoiIds, k \in Keys, v \in Values}

\* The entries with k data rows drawn from S; with none, the entry may be
\* missing from the archive.
Entries(S, k) ==
    IF k = 0 THEN {Absent, Entry(<< >>)} ELSE {Entry(r) : r \in [1..k -> S]}

\* The numbers of data rows of the three entries of an archive with at most
\* n data rows in all.
Shapes(n) == {t \in (0..n) \X (0..n) \X (0..n) : t[1] + t[2] + t[3] <= n}

\* The archives whose entries have s[1], s[2] and s[3] data rows.
ArchivesWithShape(P, T, Q, s) ==
    {[poi |-> e1, poi_type |-> e2, poi_properties |-> e3] :
        e1 \in Entries(P, s[1]), e2 \in Entries(T, s[2]), e3 \in Entries(Q, s[3])}

\* No file at the path.
NoArchive == [poi |-> Absent, poi_type |-> Absent, poi_properties |-> Absent]

PoiValues ==
    {MkPoi(id, p.name, CoordNew(p.lon, p.lat), p.type_id, props, vis, p.weight) :
        id \in PoiIds, p \in PoiPayloads, props \in PartialMaps(Keys, Values),
        vis \in BOOLEAN}

PoiTypeValues == {MkPoiType(id, n) : id \in TypeIds, n \in TypeNames}

\* The models with POI keys D and PoiType keys E. pois and poi_types are
\* public fields, so a key need not be the id of the value under it.
ModelsOver(D, E, PV, TV) == {MkModel(ps, ts) : ps \in [D -> PV], ts \in [E -> TV]}

\* Each key is the id of the value stored under it.
KeysMatchIds(m) ==
    /\ \A k \in DOMAIN m.pois : m.pois[k].id = k
    /\ \A k \in DOMAIN m.poi_types : m.poi_types[k].id = k

\* The operands of a merge: POIs without properties, any poi_types map.
MergePoiValues == {q \in PoiValues : q.properties = EmptyMap /\ q.visible}

MergeModels(D, E) ==
    {m \in ModelsOver(D, E, MergePoiValues, PoiTypeValues) :
        \A k \in D : m.pois[k].id = k}

\* The archives loaded while a catalog is assembled.
CatalogPoiRows == {r \in PoiRows : r.poi_visible \in {0, 1} /\ r.poi_type_id = "t1"}

CatalogPropertyRows == {r \in PoiPropertyRows : r.key = "k1" /\ r.value = "v1"}

CatalogArchives ==
    UNION {ArchivesWithShape(CatalogPoiRows, PoiTypeRows, CatalogPropertyRows, s) :
           s \in Shapes(MaxCatalogRows)}

\* What Model::try_from_path returns on them.
CatalogLoads == {load_model_from_path(a) : a \in CatalogArchives}

(***************************************************************************)
(* Actions                                                                 *)
(***************************************************************************)
\* coord.is_valid()
IsValid ==
    /\ pc = "coord"
    /\ valid' = is_valid(coord)
    /\ pc' = "checked"
    /\ UNCHANGED <<archive, self, rhs, result, coord>>

\* self.save_to_path(path)
SaveToPath ==
    /\ pc = "model"
    /\ archive' = write_model_to_path(self)
    /\ pc' = "saved"
    /\ UNCHANGED <<self, rhs, result, coord, valid>>

\* Model::try_from_path(path), of a hand-written archive or of the one
\* save_to_path wrote.
TryFromPath ==
    /\ pc \in {"archive", "saved"}
    /\ result' = load_model_from_path(archive)
    /\ pc' = IF pc = "saved" THEN "reloaded" ELSE "loaded"
    /\ UNCHANGED <<archive, self, rhs, coord, valid>>

\* self.try_merge(rhs); the operands stay in the state for reference.
TryMerge ==
    /\ pc = "models"
    /\ \E order \in HashOrders(DOMAIN rhs.poi_types) :
           result' = try_merge(self, rhs, order)
    /\ pc' = "merged"
    /\ UNCHANGED <<archive, self, rhs, coord, valid>>

\* let self = Model::try_from_path(..)?
CatalogLoadSelf ==
    /\ pc = "catalog"
    /\ \E r \in CatalogLoads : r.ok /\ self' = r.model
    /\ UNCHANGED <<pc, archive, rhs, result, coord, valid>>

\* let rhs = Model::try_from_path(..)?
CatalogLoadRhs ==
    /\ pc = "catalog"
    /\ \E r \in CatalogLoads : r.ok /\ rhs' = r.model
    /\ UNCHANGED <<pc, archive, self, result, coord, valid>>

\* let self = self.try_merge(rhs)?  (rhs is moved)
CatalogMerge ==
    /\ pc = "catalog"
    /\ \E order \in HashOrders(DOMAIN rhs.poi_types) :
           LET r == try_merge(self, rhs, order)
           IN  r.ok /\ self' = r.model
    /\ rhs' = ModelDefault
    /\ UNCHANGED <<pc, archive, result, coord, valid>>

(***************************************************************************)
(* Specifications                                                          *)
(***************************************************************************)
Idle ==
    /\ archive = NoArchive
    /\ self = ModelDefault
    /\ rhs = ModelDefault
    /\ result = NoResult
    /\ coord = CoordDefault
    /\ valid = FALSE

InitCoord ==
    /\ pc = "coord"
    /\ coord \in {CoordNew(lon, lat) : lon \in SampleLons, lat \in SampleLats}
    /\ archive = NoArchive
    /\ self = ModelDefault
    /\ rhs = ModelDefault
    /\ result = NoResult
    /\ valid = FALSE

NextCoord == IsValid

SpecCoord == InitCoord /\ [][NextCoord]_vars

InitIO ==
    /\ rhs = ModelDefault
    /\ result = NoResult
    /\ coord = CoordDefault
    /\ valid = FALSE
    /\ \/ /\ pc = "archive"
          /\ \E s \in Shapes(MaxRows) :
                 archive \in ArchivesWithShape(PoiRows, PoiTypeRows, PoiPropertyRows, s)
          /\ self = ModelDefault
       \/ /\ pc = "model"
          /\ \E D \in SUBSET PoiIds, E \in SUBSET TypeIds :
                 self \in ModelsOver(D, E, PoiValues, PoiTypeValues)
          /\ archive = NoArchive

NextIO == SaveToPath \/ TryFromPath

SpecIO == InitIO /\ [][NextIO]_vars

InitMerge ==
    /\ pc = "models"
    /\ \E D \in SUBSET PoiIds, E \in SUBSET TypeIds : self \in MergeModels(D, E)
    /\ \E D \in SUBSET PoiIds, E \in SUBSET TypeIds : rhs \in MergeModels(D, E)
    /\ archive = NoArchive
    /\ result = NoResult
    /\ coord = CoordDefault
    /\ valid = FALSE

NextMerge == TryMerge

SpecMerge == InitMerge /\ [][NextMerge]_vars

InitCatalog == pc = "catalog" /\ Idle

NextCatalog == CatalogLoadSelf \/ CatalogLoadRhs \/ CatalogMerge

SpecCatalog == InitCatalog /\ [][NextCatalog]_vars

SharedPois == (DOMAIN self.pois) \cap (DOMAIN rhs.pois)

SharedPoiTypes == (DOMAIN self.poi_types) \cap (DOMAIN rhs.poi_types)

\* C1: try_merge fails with the POI conflict error whenever a POI id is a key
\* of both operands, whether or not the two Poi values are equal, and the
\* error names such an id; no merged Model is returned.
C1_PoiIdCollisionFails ==
    (pc = "merged" /\ SharedPois # {}) =>
        /\ ~result.ok
        /\ result.err = "poi_conflict"
        /\ result.id \in SharedPois

\* A merge has failed on an id under which both operands hold the same Poi.
C1_Witness ==
    /\ pc = "merged"
    /\ \E k \in SharedPois : self.pois[k] = rhs.pois[k]
    /\ ~result.ok

\* C2: with disjoint POI ids, try_merge fails if a PoiType id is in both
\* operands under different names, and succeeds if every PoiType id in both
\* has equal values; the result then holds, under each shared id, the entry
\* self held.
C2_PoiTypeConflict ==
    (pc = "merged" /\ SharedPois = {}) =>
        /\ (\E k \in SharedPoiTypes :
                self.poi_types[k].name # rhs.poi_types[k].name)
            => (~result.ok /\ result.err = "poi_type_conflict")
        /\ (\A k \in SharedPoiTypes : self.poi_types[k] = rhs.poi_types[k])
            => /\ result.ok
               /\ \A k \in SharedPoiTypes :
                      /\ k \in DOMAIN result.model.poi_types
                      /\ result.model.poi_types[k] = self.poi_types[k]

\* A merge of operands that declare the same PoiType has succeeded.
C2_Witness ==
    /\ pc = "merged"
    /\ SharedPois = {}
    /\ SharedPoiTypes # {}
    /\ result.ok

\* C3: when try_merge succeeds, the result's pois is the union of the two
\* pois maps, each POI unchanged, its size the sum of the two sizes, and its
\* poi_types is the union of the two poi_types maps.
C3_MergeIsUnion ==
    (pc = "merged" /\ result.ok) =>
        LET out == result.model
        IN  /\ DOMAIN out.pois = (DOMAIN self.pois) \cup (DOMAIN rhs.pois)
            /\ \A k \in DOMAIN self.pois : out.pois[k] = self.pois[k]
            /\ \A k \in DOMAIN rhs.pois : out.pois[k] = rhs.pois[k]
            /\ Cardinality(DOMAIN out.pois) =
                   Cardinality(DOMAIN self.pois) + Cardinality(DOMAIN rhs.pois)
            /\ DOMAIN out.poi_types =
                   (DOMAIN self.poi_types) \cup (DOMAIN rhs.poi_types)
            /\ \A k \in DOMAIN self.poi_types : out.poi_types[k] = self.poi_types[k]
            /\ \A k \in DOMAIN rhs.poi_types : out.poi_types[k] = rhs.poi_types[k]

\* A merge of two operands that both hold a POI and share a PoiType has
\* succeeded.
C3_Witness ==
    /\ pc = "merged"
    /\ result.ok
    /\ DOMAIN self.pois # {}
    /\ DOMAIN rhs.pois # {}
    /\ SharedPoiTypes # {}
    /\ DOMAIN self.poi_types # DOMAIN rhs.poi_types

(***************************************************************************)
(* Claims about save and load (SpecIO)                                     *)
(***************************************************************************)
PoiTxt == archive.poi.rows

PoiTypeTxt == archive.poi_type.rows

PoiPropertiesTxt == archive.poi_properties.rows

\* The ids of the rows of poi.txt.
PoiTxtIds == {PoiTxt[i].poi_id : i \in DOMAIN PoiTxt}

\* Every cell of poi.txt reads as a value of its column's type.
PoiTxtParses ==
    \A i \in DOMAIN PoiTxt :
        PoiTxt[i].poi_visible \in 0..255 /\ PoiTxt[i].poi_weight >= 0

\* The rows of poi_properties.txt whose poi_id no row of poi.txt carries.
DanglingRows ==
    {i \in DOMAIN PoiPropertiesTxt : PoiPropertiesTxt[i].poi_id \notin PoiTxtIds}

\* The last row of poi.txt with the given id.
LastPoiRow(id) ==
    PoiTxt[CHOOSE i \in DOMAIN PoiTxt :
               /\ PoiTxt[i].poi_id = id
               /\ \A j \in DOMAIN PoiTxt : PoiTxt[j].poi_id = id => j <= i]

\* C4: for every model whose keys are the ids of its entities, saving it and
\* loading the written archive succeeds and yields the same POIs, field by
\* field and property by property, and the same PoiTypes.
C4_RoundTrip ==
    (pc = "reloaded" /\ KeysMatchIds(self)) =>
        /\ result.ok
        /\ DOMAIN result.model.pois = DOMAIN self.pois
        /\ \A k \in DOMAIN self.pois :
               /\ result.model.pois[k] = self.pois[k]
               /\ result.model.pois[k].properties = self.pois[k].properties
        /\ result.model.poi_types = self.poi_types

\* A model of two POIs, one hidden, one with two properties and a negative
\* latitude, and a PoiType has been saved and loaded again.
C4_Witness ==
    /\ pc = "reloaded"
    /\ KeysMatchIds(self)
    /\ DOMAIN self.pois = PoiIds
    /\ \E k \in PoiIds : ~self.pois[k].visible
    /\ \E k \in PoiIds :
           DOMAIN self.pois[k].properties = Keys /\ self.pois[k].coord.lat < 0
    /\ DOMAIN self.poi_types # {}
    /\ result.ok

\* What save_to_path writes in the poi_visible column: the i-th row is that
\* of the i-th POI in key order, 0 for hidden and 1 for visible.
SavedVisibleIsZeroOrOne ==
    pc \in {"saved", "reloaded"} =>
        LET ks == SortedSeq(DOMAIN self.pois)
        IN  /\ Len(PoiTxt) = Len(ks)
            /\ \A i \in DOMAIN PoiTxt :
                   PoiTxt[i].poi_visible = IF self.pois[ks[i]].visible THEN 1 ELSE 0

\* C5 as stated: poi_visible is written as 0 or 1, 0 loads as false and 1 as
\* true, and a row whose poi_visible is anything else makes the load fail.
C5_OtherThanZeroOneFails ==
    /\ SavedVisibleIsZeroOrOne
    /\ pc = "loaded" =>
           /\ (archive.poi.present
                 /\ \E i \in DOMAIN PoiTxt : PoiTxt[i].poi_visible \notin {0, 1})
              => ~result.ok
           /\ result.ok =>
                  \A k \in DOMAIN result.model.pois :
                      /\ LastPoiRow(k).poi_visible = 0 => ~result.model.pois[k].visible
                      /\ LastPoiRow(k).poi_visible = 1 => result.model.pois[k].visible

\* C5 amended: poi_visible is written as 0 or 1; on load 0 decodes to false
\* and every other u8 (1 to 255) to true; a row whose poi_visible is not a u8
\* makes the load fail, and a value from 2 to 255 does not: the load of an
\* archive with its two required entries, only u8 poi_visible cells and no
\* dangling property succeeds.
C5_NonZeroU8IsVisible ==
    /\ SavedVisibleIsZeroOrOne
    /\ pc = "loaded" =>
           /\ (archive.poi.present
                 /\ \E i \in DOMAIN PoiTxt : PoiTxt[i].poi_visible \notin 0..255)
              => ~result.ok
           /\ (archive.poi.present /\ archive.poi_type.present
                 /\ (\A i \in DOMAIN PoiTxt : PoiTxt[i].poi_visible \in 0..255)
                 /\ DanglingRows = {})
              => result.ok
           /\ result.ok =>
                  \A k \in DOMAIN result.model.pois :
                      result.model.pois[k].visible <=> LastPoiRow(k).poi_visible # 0

\* An archive with a poi_visible of 2 has been loaded, and its POI is visible.
C5_Witness ==
    /\ pc = "loaded"
    /\ result.ok
    /\ \E k \in DOMAIN result.model.pois :
           LastPoiRow(k).poi_visible = 2 /\ result.model.pois[k].visible

\* C6: a load of an archive whose poi_properties.txt has a row whose poi_id
\* no row of poi.txt carries fails, whatever rows surround it; when poi.txt
\* and poi_type.txt were read, the error is the lookup error and names the
\* poi_id of the first such row.
C6_DanglingPropertyFails ==
    (pc = "loaded" /\ archive.poi_properties.present /\ DanglingRows # {}) =>
        /\ ~result.ok
        /\ (archive.poi.present /\ archive.poi_type.present /\ PoiTxtParses) =>
               /\ result.err = "lookup"
               /\ \E i \in DanglingRows :
                      /\ \A j \in DanglingRows : i <= j
                      /\ result.id = PoiPropertiesTxt[i].poi_id

\* A load has failed on a dangling row that follows a row of a known POI.
C6_Witness ==
    /\ pc = "loaded"
    /\ archive.poi_properties.present
    /\ \E i \in DanglingRows : i > 1 /\ (i - 1) \notin DanglingRows
    /\ result.err = "lookup"
    /\ result.id \notin PoiTxtIds

\* A load has failed on a dangling row that a row of a known POI follows.
C6_WitnessBefore ==
    /\ pc = "loaded"
    /\ archive.poi_properties.present
    /\ 1 \in DanglingRows
    /\ Len(PoiPropertiesTxt) = 2
    /\ 2 \notin DanglingRows
    /\ result.err = "lookup"

\* C7: a load of an archive with poi.txt and poi_type.txt (their rows well
\* typed) and no poi_properties.txt succeeds, with the POIs of poi.txt and
\* no property on any; a load of an archive without poi.txt or without
\* poi_type.txt fails.
C7_OptionalProperties ==
    pc = "loaded" =>
        /\ (~archive.poi.present \/ ~archive.poi_type.present) => ~result.ok
        /\ (archive.poi.present /\ archive.poi_type.present
              /\ ~archive.poi_properties.present /\ PoiTxtParses)
           => /\ result.ok
              /\ DOMAIN result.model.pois = PoiTxtIds
              /\ \A k \in DOMAIN result.model.pois :
                     DOMAIN result.model.pois[k].properties = {}

\* An archive with POIs and types and no poi_properties.txt has been loaded.
C7_Witness ==
    /\ pc = "loaded"
    /\ archive.poi.present
    /\ archive.poi_type.present
    /\ ~archive.poi_properties.present
    /\ Len(PoiTxt) >= 2
    /\ Len(PoiTypeTxt) >= 1
    /\ result.ok

\* C9: duplicate rows never make a load fail (it succeeds exactly when the
\* two required entries are there, every cell is well typed and no property
\* dangles), and the last row wins: the model holds the PoiType of the last
\* row of each poi_type_id, and each POI holds, under each key, the value of
\* the last row of poi_properties.txt with its poi_id and that key.
C9_LastRowWins ==
    pc = "loaded" =>
        /\ result.ok <=> /\ archive.poi.present
                         /\ archive.poi_type.present
                         /\ PoiTxtParses
                         /\ DanglingRows = {}
        /\ result.ok =>
               /\ \A i \in DOMAIN PoiTypeTxt :
                      (\A j \in DOMAIN PoiTypeTxt :
                           PoiTypeTxt[j].poi_type_id = PoiTypeTxt[i].poi_type_id => j <= i)
                      => /\ PoiTypeTxt[i].poi_type_id \in DOMAIN result.model.poi_types
                         /\ result.model.poi_types[PoiTypeTxt[i].poi_type_id] =
                                [id |-> PoiTypeTxt[i].poi_type_id,
                                 name |-> PoiTypeTxt[i].poi_type_name]
               /\ \A i \in DOMAIN PoiPropertiesTxt :
                      (\A j \in DOMAIN PoiPropertiesTxt :
                           (/\ PoiPropertiesTxt[j].poi_id = PoiPropertiesTxt[i].poi_id
                            /\ PoiPropertiesTxt[j].key = PoiPropertiesTxt[i].key) => j <= i)
                      => LET props ==
                                 result.model.pois[PoiPropertiesTxt[i].poi_id].properties
                         IN  /\ PoiPropertiesTxt[i].key \in DOMAIN props
                             /\ props[PoiPropertiesTxt[i].key] = PoiPropertiesTxt[i].value

\* An archive with two rows of one poi_type_id and different names has been
\* loaded.
C9_Witness ==
    /\ pc = "loaded"
    /\ result.ok
    /\ \E i, j \in DOMAIN PoiTypeTxt :
           /\ i < j
           /\ PoiTypeTxt[i].poi_type_id = PoiTypeTxt[j].poi_type_id
           /\ PoiTypeTxt[i].poi_type_name # PoiTypeTxt[j].poi_type_name

\* An archive with two rows of one poi_id and key and different values has
\* been loaded.
C9_WitnessProperties ==
    /\ pc = "loaded"
    /\ result.ok
    /\ \E i, j \in DOMAIN PoiPropertiesTxt :
           /\ i < j
           /\ PoiPropertiesTxt[i].poi_id = PoiPropertiesTxt[j].poi_id
           /\ PoiPropertiesTxt[i].key = PoiPropertiesTxt[j].key
           /\ PoiPropertiesTxt[i].value # PoiPropertiesTxt[j].value

(***************************************************************************)
(* Claim about the models loads and merges build (SpecCatalog)             *)
(***************************************************************************)
\* C10: in every model obtained from the empty model by successful loads and
\* successful merges, each key of pois is the id of the Poi under it and
\* each key of poi_types is the id of the PoiType under it.
C10_KeysAreIds == KeysMatchIds(self) /\ KeysMatchIds(rhs)

\* Merges have built a model of two POIs and two PoiTypes, more rows than
\* one loaded archive holds.
C10_Witness ==
    /\ DOMAIN self.pois = PoiIds
    /\ DOMAIN self.poi_types = TypeIds
    /\ \E k \in PoiIds : DOMAIN self.pois[k].properties # {}

====
